---- MODULE Spec2Model ----
(***************************************************************************)
(* ConnectorsView (airbyte-webapp, SettingsPage/ConnectorsPage): the       *)
(* component as a state machine over its renders.  The state is the props  *)
(* and feature flags of the latest render, the two callbacks React keeps   *)
(* memoized between renders (useCallback), and the element tree the latest *)
(* render returned.  Every action is one render pass.                      *)
(***************************************************************************)
EXTENDS Naturals, Sequences, FiniteSets, TLC

VARIABLES
    allowUpdateConnectors,         \* useFeature(FeatureItem.AllowUpdateConnectors)
    allowUploadCustomImage,        \* useFeature(FeatureItem.AllowUploadCustomImage)
    isUpdateSuccess,               \* prop
    hasNewConnectorVersion,        \* prop, optional: "undefined", "true", "false"
    usedConnectorsDefinitions,     \* prop
    availableConnectorDefinitions, \* result of useAvailableConnectorDefinitions
    loading,                       \* prop
    error,                         \* prop, optional: "undefined" or "Error"
    onUpdateVersion,               \* prop, a callback (its identity)
    feedbackList,                  \* prop, Record<string, string>
    showVersionUpdateColumn,       \* memoized callback: [deps, closure]
    renderColumns,                 \* memoized callback: [deps, closure]
    rendered                       \* the element tree returned by the render

vars == <<allowUpdateConnectors, allowUploadCustomImage, isUpdateSuccess,
          hasNewConnectorVersion, usedConnectorsDefinitions,
          availableConnectorDefinitions, loading, error, onUpdateVersion,
          feedbackList, showVersionUpdateColumn, renderColumns, rendered>>

----------------------------------------------------------------------------
(* Bounds and input domains *)

MaxLen == 2

ReleaseStages == {"custom", "generally_available"}

ConnectorIds == {"c1", "g1"}

\* The connector definitions the lists are drawn from: a user-uploaded one
\* and a catalog one.
DefinitionPool ==
    { [id |-> "c1", releaseStage |-> "custom"],
      [id |-> "g1", releaseStage |-> "generally_available"] }

RECURSIVE SeqsUpTo(_, _)
SeqsUpTo(S, n) ==
    IF n = 0 THEN { <<>> }
    ELSE LET shorter == SeqsUpTo(S, n - 1)
         IN  shorter \cup { Append(s, x) : s \in { t \in shorter : Len(t) = n - 1 }, x \in S }

DefinitionLists == SeqsUpTo(DefinitionPool, MaxLen)

OptionalBooleans == {"undefined", "true", "false"}

OptionalErrors == {"undefined", "Error"}

UpdateVersionCallbacks == {"onUpdateVersion#1", "onUpdateVersion#2"}

FeedbackLists ==
    { [i \in ConnectorIds |-> "undefined"],
      [i \in ConnectorIds |-> IF i = "c1" THEN "success" ELSE "undefined"] }

\* JavaScript truthiness of an optional boolean / optional object.
Truthy(v) == v \notin {"undefined", "false"}

----------------------------------------------------------------------------
(* The component *)

\* Mutation: the descriptor asks for the descending direction.
defaultSortingDescending == << [id |-> "name", desc |-> TRUE] >>

\* const defaultSorting = [{ id: "name" }];
defaultSorting == << [id |-> "name"] >>

\* What a render reads: the destructured props and the hook results.
Inputs ==
    [ allowUpdateConnectors         |-> allowUpdateConnectors,
      allowUploadCustomImage        |-> allowUploadCustomImage,
      isUpdateSuccess               |-> isUpdateSuccess,
      hasNewConnectorVersion        |-> hasNewConnectorVersion,
      usedConnectorsDefinitions     |-> usedConnectorsDefinitions,
      availableConnectorDefinitions |-> availableConnectorDefinitions,
      loading                       |-> loading,
      error                         |-> error,
      onUpdateVersion               |-> onUpdateVersion,
      feedbackList                  |-> feedbackList ]

\* React.useCallback(fn, deps): the callback of the earlier render is kept
\* (with everything it closed over) while the dependency list is unchanged.
UseCallback(memo, closure, deps) ==
    IF memo.deps = deps THEN memo ELSE [deps |-> deps, closure |-> closure]

\* What a showVersionUpdateColumn created in a render with inputs p reads
\* from the render's scope.
ShowClosure(p) ==
    [ allowUpdateConnectors  |-> p.allowUpdateConnectors,
      allowUploadCustomImage |-> p.allowUploadCustomImage ]

\* What a renderColumns created in a render with inputs p reads from the
\* render's scope.
ColumnsClosure(p) ==
    [ allowUpdateConnectors  |-> p.allowUpdateConnectors,
      allowUploadCustomImage |-> p.allowUploadCustomImage,
      onUpdateVersion        |-> p.onUpdateVersion,
      feedbackList           |-> p.feedbackList ]

\* Mutation: allowUploadCustomImage is left out of the dependency list.
ShowVersionUpdateColumnDepsWithoutUpload(p) ==
    << p.allowUpdateConnectors >>

\* [allowUpdateConnectors, allowUploadCustomImage]
ShowVersionUpdateColumnDeps(p) ==
    << p.allowUpdateConnectors, p.allowUploadCustomImage >>

\* [feedbackList, onUpdateVersion, allowUpdateConnectors, allowUploadCustomImage]
RenderColumnsDeps(p) ==
    << p.feedbackList, p.onUpdateVersion, p.allowUpdateConnectors,
       p.allowUploadCustomImage >>

\* definitions.some((definition) => definition.releaseStage === "custom")
SomeCustom(definitions) ==
    \E i \in 1..Len(definitions) : definitions[i].releaseStage = "custom"

\* Mutation: the custom-image flag alone decides, the list is not looked at.
ShowVersionUpdateColumnBodyIgnoringList(closure, definitions) ==
    closure.allowUpdateConnectors \/ closure.allowUploadCustomImage

\* The body of the showVersionUpdateColumn callback.
ShowVersionUpdateColumnBody(closure, definitions) ==
    IF closure.allowUpdateConnectors
    THEN TRUE
    ELSE IF closure.allowUploadCustomImage /\ SomeCustom(definitions)
         THEN TRUE
         ELSE FALSE

NullElement == [component |-> "null"]

\* Mutation: the cell is not gated per row.
VersionColumnCellForEveryRow(closure, row) ==
    [ component |-> "VersionCell",
      id        |-> row.id,
      onChange  |-> closure.onUpdateVersion,
      feedback  |-> closure.feedbackList[row.id] ]

\* The Cell of the latestDockerImageTag column, for one row.
VersionColumnCell(closure, row) ==
    IF closure.allowUpdateConnectors
       \/ (closure.allowUploadCustomImage /\ row.releaseStage = "custom")
    THEN [ component |-> "VersionCell",
           id        |-> row.id,
           onChange  |-> closure.onUpdateVersion,
           feedback  |-> closure.feedbackList[row.id] ]
    ELSE NullElement

\* The three columns every table has.
BaseColumns(closure) ==
    << [ Header |-> "admin.connectors", accessor |-> "name",
         Cell |-> "ConnectorCell", closure |-> closure ],
       [ Header |-> "admin.image", accessor |-> "dockerRepository",
         Cell |-> "ImageCell", closure |-> closure ],
       [ Header |-> "admin.currentVersion", accessor |-> "dockerImageTag",
         Cell |-> "default", closure |-> closure ] >>

\* The optional column.
ChangeVersionColumn(closure) ==
    [ Header |-> "admin.changeTo", accessor |-> "latestDockerImageTag",
      Cell |-> "VersionColumnCell", closure |-> closure ]

\* Mutation: the optional column is put in front of the base columns.
RenderColumnsBodyVersionFirst(closure, flag) ==
    (IF flag THEN << ChangeVersionColumn(closure) >> ELSE << >>)
    \o BaseColumns(closure)

\* The body of the renderColumns callback.
RenderColumnsBody(closure, flag) ==
    BaseColumns(closure)
    \o (IF flag THEN << ChangeVersionColumn(closure) >> ELSE << >>)

\* Mutation: CreateConnector is gated on the update flag.
CreateConnectorSlotGatedOnUpdate(p) ==
    IF p.allowUpdateConnectors THEN << [component |-> "CreateConnector"] >> ELSE << >>

\* {allowUploadCustomImage && <CreateConnector type={type} />}
CreateConnectorSlot(p) ==
    IF p.allowUploadCustomImage THEN << [component |-> "CreateConnector"] >> ELSE << >>

\* Mutation: the error state does not look at loading.
UpgradeAllButtonErrorWhileLoading(p) ==
    [ component  |-> "UpgradeAllButton",
      isLoading  |-> p.loading,
      hasError   |-> Truthy(p.error),
      hasSuccess |-> p.isUpdateSuccess ]

\* <UpgradeAllButton isLoading hasError hasSuccess onUpdate />
UpgradeAllButton(p) ==
    [ component  |-> "UpgradeAllButton",
      isLoading  |-> p.loading,
      hasError   |-> Truthy(p.error) /\ ~p.loading,
      hasSuccess |-> p.isUpdateSuccess ]

\* Mutation: the button is not gated on allowUpdateConnectors.
UpgradeAllSlotNotGatedOnUpdate(p) ==
    IF Truthy(p.hasNewConnectorVersion) \/ p.isUpdateSuccess
    THEN << UpgradeAllButton(p) >>
    ELSE << >>

\* {(hasNewConnectorVersion || isUpdateSuccess) && allowUpdateConnectors && (...)}
UpgradeAllSlot(p) ==
    IF (Truthy(p.hasNewConnectorVersion) \/ p.isUpdateSuccess) /\ p.allowUpdateConnectors
    THEN << UpgradeAllButton(p) >>
    ELSE << >>

\* <div className={styles.buttonsContainer}> and its children.
ButtonsContainer(p) ==
    [ className |-> "buttonsContainer",
      children  |-> CreateConnectorSlot(p) \o UpgradeAllSlot(p) ]

\* Mutation: the controls are rendered whatever the section is.
RenderHeaderControlsInEverySection(p, section) ==
    << ButtonsContainer(p) >>

\* renderHeaderControls(section): what it contributes to the Title's children.
RenderHeaderControls(p, section) ==
    IF (section = "used" /\ Len(p.usedConnectorsDefinitions) > 0)
       \/ (section = "available" /\ Len(p.usedConnectorsDefinitions) = 0)
    THEN << ButtonsContainer(p) >>
    ELSE << >>

\* The generic Table: keeps what it was given and calls the Cell of the
\* change-version column, when there is one, for every row of data.
Table(columns, data, sortBy) ==
    [ columns |-> columns,
      data    |-> data,
      sortBy  |-> sortBy,
      versionCells |->
        IF \E j \in 1..Len(columns) : columns[j].accessor = "latestDockerImageTag"
        THEN LET j == CHOOSE k \in 1..Len(columns) :
                          columns[k].accessor = "latestDockerImageTag"
             IN  [ i \in 1..Len(data) |-> VersionColumnCell(columns[j].closure, data[i]) ]
        ELSE << >> ]

\* The used block of the returned fragment.
UsedBlock(p, showCb, colsCb) ==
    [ section        |-> "used",
      headerControls |-> RenderHeaderControls(p, "used"),
      table          |-> Table(
          RenderColumnsBody(colsCb.closure,
              ShowVersionUpdateColumnBody(showCb.closure, p.usedConnectorsDefinitions)),
          p.usedConnectorsDefinitions,
          defaultSorting) ]

\* Mutation: the available table's column is decided on the used list.
AvailableBlockDecidedOnUsedList(p, showCb, colsCb) ==
    [ section        |-> "available",
      headerControls |-> RenderHeaderControls(p, "available"),
      table          |-> Table(
          RenderColumnsBody(colsCb.closure,
              ShowVersionUpdateColumnBody(showCb.closure, p.usedConnectorsDefinitions)),
          p.availableConnectorDefinitions,
          defaultSorting) ]

\* The available block of the returned fragment.
AvailableBlock(p, showCb, colsCb) ==
    [ section        |-> "available",
      headerControls |-> RenderHeaderControls(p, "available"),
      table          |-> Table(
          RenderColumnsBody(colsCb.closure,
              ShowVersionUpdateColumnBody(showCb.closure, p.availableConnectorDefinitions)),
          p.availableConnectorDefinitions,
          defaultSorting) ]

\* The fragment the component returns: its blocks, in document order.
ConnectorsView(p, showCb, colsCb) ==
    (IF Len(p.usedConnectorsDefinitions) > 0
     THEN << UsedBlock(p, showCb, colsCb) >>
     ELSE << >>)
    \o << AvailableBlock(p, showCb, colsCb) >>

----------------------------------------------------------------------------
(* Renders *)

InputsOK(p) ==
    /\ p.allowUpdateConnectors \in BOOLEAN
    /\ p.allowUploadCustomImage \in BOOLEAN
    /\ p.isUpdateSuccess \in BOOLEAN
    /\ p.hasNewConnectorVersion \in OptionalBooleans
    /\ p.usedConnectorsDefinitions \in DefinitionLists
    /\ p.availableConnectorDefinitions \in DefinitionLists
    /\ p.loading \in BOOLEAN
    /\ p.error \in OptionalErrors
    /\ p.onUpdateVersion \in UpdateVersionCallbacks
    /\ p.feedbackList \in FeedbackLists

\* The state a render with inputs p leaves, given the callbacks it ends with.
Commit(p, showCb, colsCb) ==
    /\ allowUpdateConnectors' = p.allowUpdateConnectors
    /\ allowUploadCustomImage' = p.allowUploadCustomImage
    /\ isUpdateSuccess' = p.isUpdateSuccess
    /\ hasNewConnectorVersion' = p.hasNewConnectorVersion
    /\ usedConnectorsDefinitions' = p.usedConnectorsDefinitions
    /\ availableConnectorDefinitions' = p.availableConnectorDefinitions
    /\ loading' = p.loading
    /\ error' = p.error
    /\ onUpdateVersion' = p.onUpdateVersion
    /\ feedbackList' = p.feedbackList
    /\ showVersionUpdateColumn' = showCb
    /\ renderColumns' = colsCb
    /\ rendered' = ConnectorsView(p, showCb, colsCb)

\* A render of the mounted component with inputs p.
Rerender(p) ==
    LET showCb == UseCallback(showVersionUpdateColumn, ShowClosure(p),
                              ShowVersionUpdateColumnDeps(p))
        colsCb == UseCallback(renderColumns, ColumnsClosure(p), RenderColumnsDeps(p))
    IN  Commit(p, showCb, colsCb)

\* The props of the first render: nothing used or available yet, no upgrade
\* under way, both features off.
FirstInputs ==
    [ allowUpdateConnectors         |-> FALSE,
      allowUploadCustomImage        |-> FALSE,
      isUpdateSuccess               |-> FALSE,
      hasNewConnectorVersion        |-> "undefined",
      usedConnectorsDefinitions     |-> << >>,
      availableConnectorDefinitions |-> << >>,
      loading                       |-> FALSE,
      error                         |-> "undefined",
      onUpdateVersion               |-> "onUpdateVersion#1",
      feedbackList                  |-> [i \in ConnectorIds |-> "undefined"] ]

\* The first render: both callbacks are created from the first inputs.
Init ==
    LET p == FirstInputs
        showCb == [deps |-> ShowVersionUpdateColumnDeps(p), closure |-> ShowClosure(p)]
        colsCb == [deps |-> RenderColumnsDeps(p), closure |-> ColumnsClosure(p)]
    IN  /\ allowUpdateConnectors = p.allowUpdateConnectors
        /\ allowUploadCustomImage = p.allowUploadCustomImage
        /\ isUpdateSuccess = p.isUpdateSuccess
        /\ hasNewConnectorVersion = p.hasNewConnectorVersion
        /\ usedConnectorsDefinitions = p.usedConnectorsDefinitions
        /\ availableConnectorDefinitions = p.availableConnectorDefinitions
        /\ loading = p.loading
        /\ error = p.error
        /\ onUpdateVersion = p.onUpdateVersion
        /\ feedbackList = p.feedbackList
        /\ showVersionUpdateColumn = showCb
        /\ renderColumns = colsCb
        /\ rendered = ConnectorsView(p, showCb, colsCb)

\* The feature service resolves the two flags anew.
FeaturesChange ==
    \E a, b \in BOOLEAN :
        Rerender([Inputs EXCEPT !.allowUpdateConnectors = a,
                                !.allowUploadCustomImage = b])

\* The caller passes new isUpdateSuccess and hasNewConnectorVersion.
UpgradeOutcomeChange ==
    \E s \in BOOLEAN : \E h \in OptionalBooleans :
        Rerender([Inputs EXCEPT !.isUpdateSuccess = s,
                                !.hasNewConnectorVersion = h])

\* The caller passes new loading and error.
UpgradeProgressChange ==
    \E ld \in BOOLEAN : \E e \in OptionalErrors :
        Rerender([Inputs EXCEPT !.loading = ld, !.error = e])

\* The caller passes a new onUpdateVersion and feedbackList.
FeedbackChange ==
    \E cb \in UpdateVersionCallbacks, fl \in FeedbackLists :
        Rerender([Inputs EXCEPT !.onUpdateVersion = cb, !.feedbackList = fl])

\* The caller passes a new usedConnectorsDefinitions.
UsedDefinitionsChange ==
    \E u \in DefinitionLists :
        Rerender([Inputs EXCEPT !.usedConnectorsDefinitions = u])

\* useAvailableConnectorDefinitions returns a new list.
AvailableDefinitionsChange ==
    \E v \in DefinitionLists :
        Rerender([Inputs EXCEPT !.availableConnectorDefinitions = v])

Next ==
    \/ FeaturesChange
    \/ UpgradeOutcomeChange
    \/ UpgradeProgressChange
    \/ FeedbackChange
    \/ UsedDefinitionsChange
    \/ AvailableDefinitionsChange

Spec == Init /\ [][Next]_vars

TypeOK == InputsOK(Inputs)

----------------------------------------------------------------------------
(* What the latest render shows *)

Blocks == { rendered[i] : i \in DOMAIN rendered }

ListOf(section) ==
    IF section = "used" THEN usedConnectorsDefinitions
    ELSE availableConnectorDefinitions

Accessors(table) == [ j \in 1..Len(table.columns) |-> table.columns[j].accessor ]

HasChangeVersionColumn(table) ==
    \E j \in 1..Len(table.columns) : table.columns[j].accessor = "latestDockerImageTag"

HeaderChildren(b) ==
    IF Len(b.headerControls) = 0 THEN << >> ELSE b.headerControls[1].children

\* The places (block, position in its container) where a control is rendered.
Controls(component) ==
    UNION { { <<i, k>> : k \in { n \in DOMAIN HeaderChildren(rendered[i]) :
                                   HeaderChildren(rendered[i])[n].component = component } } :
            i \in DOMAIN rendered }

RowEligible(row) ==
    allowUpdateConnectors \/ (allowUploadCustomImage /\ row.releaseStage = "custom")

ListEligible(list) ==
    allowUpdateConnectors
    \/ (allowUploadCustomImage /\ \E k \in 1..Len(list) : list[k].releaseStage = "custom")

----------------------------------------------------------------------------
(* Claims *)

\* C1: a table has the change-version column (latestDockerImageTag) if and
\* only if allowUpdateConnectors is on, or allowUploadCustomImage is on and
\* some definition of that table's own list has releaseStage "custom"; the
\* used and the available table are decided separately.
C1_ColumnIffPolicyOfOwnList ==
    \A b \in Blocks :
        /\ b.table.data = ListOf(b.section)
        /\ HasChangeVersionColumn(b.table) <=> ListEligible(ListOf(b.section))

C1_Witness ==
    /\ ~allowUpdateConnectors /\ allowUploadCustomImage
    /\ \E b, c \in Blocks :
        /\ b.section = "used" /\ c.section = "available"
        /\ Len(c.table.data) > 0
        /\ HasChangeVersionColumn(b.table)
        /\ ~HasChangeVersionColumn(c.table)

\* C2: the used block is rendered if and only if usedConnectorsDefinitions is
\* non-empty, the available block is always rendered and is the last block,
\* and exactly one rendered block carries the header-controls container: the
\* used block when usedConnectorsDefinitions is non-empty, the available
\* block otherwise.
C2_BlocksAndHeaderControls ==
    /\ Len(rendered) = (IF Len(usedConnectorsDefinitions) > 0 THEN 2 ELSE 1)
    /\ rendered[Len(rendered)].section = "available"
    /\ Len(rendered) = 2 => rendered[1].section = "used"
    /\ \A i \in DOMAIN rendered : Len(rendered[i].headerControls) \in {0, 1}
    /\ Cardinality({ i \in DOMAIN rendered : Len(rendered[i].headerControls) = 1 }) = 1
    /\ \A i \in DOMAIN rendered :
          Len(rendered[i].headerControls) = 1 <=>
              (rendered[i].section =
                  (IF Len(usedConnectorsDefinitions) > 0 THEN "used" ELSE "available"))

C2_Witness ==
    /\ Len(usedConnectorsDefinitions) > 0
    /\ Len(rendered) = 2
    /\ Len(rendered[1].headerControls) = 1
    /\ Len(rendered[2].headerControls) = 0

\* C3: UpgradeAllButton is rendered if and only if (hasNewConnectorVersion or
\* isUpdateSuccess) and allowUpdateConnectors; when rendered it is rendered
\* exactly once.
C3_UpgradeAllIffNeededAndAllowed ==
    Cardinality(Controls("UpgradeAllButton")) =
        (IF (hasNewConnectorVersion = "true" \/ isUpdateSuccess) /\ allowUpdateConnectors
         THEN 1 ELSE 0)

C3_Witness ==
    /\ hasNewConnectorVersion = "undefined" /\ isUpdateSuccess /\ allowUpdateConnectors
    /\ Len(usedConnectorsDefinitions) > 0
    /\ Controls("UpgradeAllButton") = { <<1, Len(HeaderChildren(rendered[1]))>> }

\* C4: CreateConnector is rendered in no block when allowUploadCustomImage is
\* off and exactly once when it is on, whatever the other inputs are.
C4_CreateConnectorIffUploadAllowed ==
    Cardinality(Controls("CreateConnector")) = (IF allowUploadCustomImage THEN 1 ELSE 0)

C4_Witness ==
    /\ allowUploadCustomImage /\ ~allowUpdateConnectors /\ loading /\ error = "Error"
    /\ Len(usedConnectorsDefinitions) = 0
    /\ Controls("CreateConnector") = { <<1, 1>> }

\* C5: in a table that has the change-version column, the cell of a row is a
\* VersionCell if and only if allowUpdateConnectors is on, or
\* allowUploadCustomImage is on and the row's releaseStage is "custom"; every
\* other cell is empty, and a table without the column has no such cells.
C5_VersionCellIffRowEligible ==
    \A b \in Blocks :
        IF HasChangeVersionColumn(b.table)
        THEN /\ Len(b.table.versionCells) = Len(b.table.data)
             /\ \A i \in 1..Len(b.table.data) :
                   /\ b.table.versionCells[i].component \in {"VersionCell", "null"}
                   /\ b.table.versionCells[i].component = "VersionCell"
                          <=> RowEligible(b.table.data[i])
        ELSE b.table.versionCells = << >>

C5_Witness ==
    /\ ~allowUpdateConnectors
    /\ \E b \in Blocks : \E i, j \in 1..Len(b.table.data) :
        /\ HasChangeVersionColumn(b.table)
        /\ b.table.versionCells[i].component = "VersionCell"
        /\ b.table.versionCells[j].component = "null"

BaseAccessors == << "name", "dockerRepository", "dockerImageTag" >>

\* C6: renderColumns(flag) returns name, dockerRepository, dockerImageTag in
\* that order as its first three columns for both values of the flag, exactly
\* those three when the flag is false, and exactly four with
\* latestDockerImageTag last when it is true.
C6_ColumnOrder ==
    /\ \A flag \in BOOLEAN :
          LET acc == Accessors([columns |-> RenderColumnsBody(renderColumns.closure, flag)])
          IN  acc = (IF flag THEN Append(BaseAccessors, "latestDockerImageTag")
                     ELSE BaseAccessors)
    /\ \A b \in Blocks :
          Accessors(b.table) =
              (IF ListEligible(ListOf(b.section))
               THEN Append(BaseAccessors, "latestDockerImageTag")
               ELSE BaseAccessors)

C6_Witness ==
    \E b, c \in Blocks :
        /\ Len(b.table.columns) = 4 /\ b.table.columns[4].accessor = "latestDockerImageTag"
        /\ Len(c.table.columns) = 3 /\ c.table.columns[3].accessor = "dockerImageTag"

UpgradeAllButtons ==
    { HeaderChildren(rendered[pos[1]])[pos[2]] : pos \in Controls("UpgradeAllButton") }

\* C7 as stated: where UpgradeAllButton is shown, its error state is on
\* exactly when the error prop is set, its loading state is loading and its
\* success state is isUpdateSuccess.
C7_Original_ErrorPassedThrough ==
    \A u \in UpgradeAllButtons :
        /\ u.hasError = (error # "undefined")
        /\ u.isLoading = loading
        /\ u.hasSuccess = isUpdateSuccess

\* C7, amended: where UpgradeAllButton is shown, its loading state is loading,
\* its success state is isUpdateSuccess, and its error state is on exactly
\* when the error prop is set and loading is false.
C7_ErrorOnlyWhenNotLoading ==
    \A u \in UpgradeAllButtons :
        /\ u.hasError = (error # "undefined" /\ ~loading)
        /\ u.isLoading = loading
        /\ u.hasSuccess = isUpdateSuccess

C7_Witness ==
    /\ error = "Error" /\ loading
    /\ \E u \in UpgradeAllButtons : ~u.hasError /\ u.isLoading

\* C8: after any sequence of renders the tree of the latest render is the
\* one a render that memoizes nothing gives from the latest inputs, and the
\* memoized callbacks hold the latest flags, feedbackList and onUpdateVersion.
C8_MemoizedEqualsFresh ==
    /\ showVersionUpdateColumn.closure = ShowClosure(Inputs)
    /\ renderColumns.closure = ColumnsClosure(Inputs)
    /\ rendered = ConnectorsView(Inputs,
                                 [closure |-> ShowClosure(Inputs)],
                                 [closure |-> ColumnsClosure(Inputs)])

\* Flags, feedbackList and onUpdateVersion all differ from the first
\* render's, and a row shows the latest feedback and callback.
C8_Witness ==
    /\ ~allowUpdateConnectors /\ allowUploadCustomImage
    /\ feedbackList # FirstInputs.feedbackList
    /\ onUpdateVersion # FirstInputs.onUpdateVersion
    /\ \E b \in Blocks : \E i \in 1..Len(b.table.versionCells) :
        /\ b.table.versionCells[i].component = "VersionCell"
        /\ b.table.versionCells[i].feedback = "success"
        /\ b.table.versionCells[i].onChange = "onUpdateVersion#2"

\* C9: every table is given the same sort descriptor, whose only key is the
\* column name, with no descending direction asked for.
C9_DefaultSortByName ==
    /\ \A b \in Blocks :
          /\ Len(b.table.sortBy) = 1
          /\ b.table.sortBy[1].id = "name"
          /\ ("desc" \in DOMAIN b.table.sortBy[1]) => ~b.table.sortBy[1].desc
    /\ \A b, c \in Blocks : b.table.sortBy = c.table.sortBy

C9_Witness ==
    /\ Len(rendered) = 2
    /\ rendered[1].table.sortBy = << [id |-> "name"] >>
    /\ rendered[2].table.sortBy = << [id |-> "name"] >>
    /\ Len(rendered[1].table.data) = MaxLen

\* C10: if some row of a table's list is eligible for a version control the
\* table has the change-version column, and a table that has the column while
\* allowUpdateConnectors is off shows a VersionCell in at least one row.
C10_ColumnAndCellsConsistent ==
    \A b \in Blocks :
        /\ (\E i \in 1..Len(ListOf(b.section)) :
                VersionColumnCell(renderColumns.closure, ListOf(b.section)[i]).component
                    = "VersionCell")
           => HasChangeVersionColumn(b.table)
        /\ (~allowUpdateConnectors /\ HasChangeVersionColumn(b.table))
           => \E i \in 1..Len(b.table.versionCells) :
                  /\ b.table.versionCells[i].component = "VersionCell"
                  /\ b.table.data[i].releaseStage = "custom"

C10_Witness ==
    /\ ~allowUpdateConnectors
    /\ \E b, c \in Blocks :
        /\ HasChangeVersionColumn(b.table)
        /\ \E i \in 1..Len(b.table.versionCells) :
              b.table.versionCells[i].component = "VersionCell"
        /\ ~HasChangeVersionColumn(c.table)
        /\ Len(c.table.data) > 0
        /\ \A i \in 1..Len(c.table.data) :
              VersionColumnCell(renderColumns.closure, c.table.data[i]).component = "null"

====
